---- MODULE Spec2Model ----
(***************************************************************************)
(* Model of the solar axion flux integration engine                        *)
(* (src/src/spectral_flux.cpp): the integrand library, the volume and the  *)
(* disc integrator, the windowed-flux integrators and the construction of  *)
(* the inverse-CDF table of AxionMCGenerator.                              *)
(*                                                                         *)
(* A double is modelled by an exact rational <<n, d>> in lowest terms with *)
(* d > 0; d = 0 encodes the IEEE specials: <<1,0>> = +inf, <<-1,0>> = -inf *)
(* and <<0,0>> = NaN.  The GSL quadrature routines are external: a call is *)
(* recorded in the event log with its limits and the abscissae at which it *)
(* evaluates its integrand, and the value it returns is an input.          *)
(***************************************************************************)
EXTENDS Integers, Sequences, FiniteSets, TLC

VARIABLES
  s,                \* the SolarModel: [r_lo, r_hi, opcode]
  call,             \* the most recent call: its name and arguments
  outcome,          \* how it ended: "none", "returned" or an error outcome
  result,           \* what it returned (NoValue when it did not return)
  log,              \* events of the most recent call, in program order
  allocated,        \* number of quadrature workspaces currently allocated
  inv_cdf_data_erg, \* AxionMCGenerator: the energy grid
  inv_cdf_data_x,   \* AxionMCGenerator: flux, then cumulative, then probability
  integrated_norm   \* AxionMCGenerator: the normalisation constant

vars == <<s, call, outcome, result, log, allocated,
          inv_cdf_data_erg, inv_cdf_data_x, integrated_norm>>

NoValue == "NoValue"

(***************************************************************************)
(* Double arithmetic on exact rationals.                                   *)
(***************************************************************************)
Abs(n) == IF n < 0 THEN -n ELSE n

Sign(n) == IF n < 0 THEN -1 ELSE IF n > 0 THEN 1 ELSE 0

RECURSIVE GCD(_, _)
GCD(a, b) == IF b = 0 THEN a ELSE GCD(b, a % b)

\* n/d in lowest terms; x/0 is +-inf and 0/0 is NaN, as for IEEE doubles.
Rat(n, d) ==
  IF d = 0 THEN <<Sign(n), 0>>
  ELSE LET g == GCD(Abs(n), Abs(d))
       IN  <<(Sign(d) * n) \div g, Abs(d) \div g>>

Zero == <<0, 1>>
One  == <<1, 1>>
Half == <<1, 2>>
NaN  == <<0, 0>>

IsNaN(x) == x = NaN
IsFinite(x) == x[2] # 0

RAdd(x, y) ==
  IF x[2] = 0 /\ y[2] = 0
  THEN (IF x = y THEN x ELSE NaN)
  ELSE Rat(x[1] * y[2] + y[1] * x[2], x[2] * y[2])

RSub(x, y) == RAdd(x, <<-y[1], y[2]>>)
RMul(x, y) == Rat(x[1] * y[1], x[2] * y[2])
RDiv(x, y) == Rat(x[1] * y[2], x[2] * y[1])

\* Comparisons with a NaN operand are false.
RLess(x, y) == ~IsNaN(x) /\ ~IsNaN(y) /\ x # y /\ x[1] * y[2] < y[1] * x[2]
RLeq(x, y)  == ~IsNaN(x) /\ ~IsNaN(y) /\ (x = y \/ x[1] * y[2] < y[1] * x[2])

\* std::min(a, b): b if b < a, otherwise a.
RMin(a, b) == IF RLess(b, a) THEN b ELSE a

\* gsl_pow_2(x) = x*x
gsl_pow_2(x) == RMul(x, x)

\* Integer square root of a perfect square (the inputs are chosen so that
\* the radicand is one).
ISqrt(n) == CHOOSE k \in 0..n : k * k = n

IsSquare(n) == \E k \in 0..n : k * k = n

\* sqrt of a non-negative rational whose numerator and denominator are squares.
RSqrt(x) == <<ISqrt(x[1]), ISqrt(x[2])>>

\* The constant pi of constants.hpp, by a rational stand-in.
pi == <<22, 7>>

(***************************************************************************)
(* Integrand library.  The SolarModel accessors are external and pure: acc *)
(* holds the values they return at the point of evaluation.  An integrand  *)
(* returns its value and the set of accessors it evaluated.                *)
(***************************************************************************)
\* Opacity-dataset tags of the SolarModel.
opacitycode == {"OP", "OPAS", "LEDCOP", "ATOMIC"}

\* Number of tabulated opacity elements (op_element_names).
num_op_elements == 4

\* The common geometric weight 0.5*gsl_pow_2(r*erg/pi).
geometric_weight(r, erg) == RMul(Half, gsl_pow_2(RDiv(RMul(r, erg), pi)))

integrand_Primakoff(r, erg, acc) ==
  [ret       |-> RMul(geometric_weight(r, erg), acc.Gamma_P_Primakoff),
   exact     |-> TRUE,
   evaluated |-> {"Gamma_P_Primakoff"}]

\* For erg # 0 the value is coef * (1 - 1/expm1(u)); expm1 is transcendental,
\* so the factor is kept symbolic in its argument u = erg/T(r).
integrand_weightedCompton_noguard(r, erg, acc) ==
  [ret       |-> [coef |-> RMul(RMul(geometric_weight(r, erg), Half),
                                acc.Gamma_P_Compton),
                  u    |-> RDiv(erg, acc.temperature_in_keV)],
   exact     |-> FALSE,
   evaluated |-> {"temperature_in_keV", "Gamma_P_Compton"}]

integrand_weightedCompton(r, erg, acc) ==
  IF erg = Zero
  THEN [ret |-> Zero, exact |-> TRUE, evaluated |-> {}]
  ELSE [ret       |-> [coef |-> RMul(RMul(geometric_weight(r, erg), Half),
                                     acc.Gamma_P_Compton),
                       u    |-> RDiv(erg, acc.temperature_in_keV)],
        exact     |-> FALSE,
        evaluated |-> {"temperature_in_keV", "Gamma_P_Compton"}]

\* Sum of the per-element rates el[k] for the C++ indices lo <= k < hi
\* (el is 1-based, so C++ index k is el[k+1]).
RECURSIVE element_sum(_, _, _)
element_sum(el, lo, hi) ==
  IF lo >= hi THEN Zero
  ELSE RAdd(el[lo + 1], element_sum(el, lo + 1, hi))

integrand_opacity_allelements(r, erg, opcode, acc) ==
  LET viaOP  == opcode = "OP"
      viaAgg == opcode \in {"OPAS", "LEDCOP", "ATOMIC"}
      r1 == IF viaOP
            THEN RMul(geometric_weight(r, erg),
                      element_sum(acc.Gamma_P_opacity_element, 0, num_op_elements))
            ELSE Zero
      r2 == IF viaAgg
            THEN RMul(geometric_weight(r, erg), acc.Gamma_P_opacity)
            ELSE r1
  IN  [ret      |-> r2,
       exact    |-> TRUE,
       branches |-> (IF viaOP THEN {"elements"} ELSE {})
                      \cup (IF viaAgg THEN {"aggregate"} ELSE {})]

integrand_opacity(r, erg, opcode, acc) ==
  LET viaOP  == opcode = "OP"
      viaAgg == opcode \in {"OPAS", "LEDCOP", "ATOMIC"}
      r1 == IF viaOP
            THEN RMul(geometric_weight(r, erg),
                      element_sum(acc.Gamma_P_opacity_element, 2, num_op_elements))
            ELSE Zero
      r2 == IF viaAgg
            THEN RMul(geometric_weight(r, erg), acc.Gamma_P_opacity)
            ELSE r1
  IN  [ret      |-> r2,
       exact    |-> TRUE,
       branches |-> (IF viaOP THEN {"elements"} ELSE {})
                      \cup (IF viaAgg THEN {"aggregate"} ELSE {})]

\* rho_integrand: the inner line-of-sight integrand of the disc integrator;
\* process is the value of (s->*integrand)(erg, rho).
rho_integrand(rho, erg, rad, process) ==
  LET cylinder0 == RSub(RMul(rho, rho), RMul(rad, rad))
      cylinder  == RDiv(rho, RSqrt(cylinder0))
      norm_factor1 == One
  IN  RDiv(RMul(RMul(cylinder, gsl_pow_2(RDiv(RMul(Half, erg), pi))), process),
           norm_factor1)

(***************************************************************************)
(* Quadrature (GSL, external).  An adaptive Gauss-Kronrod rule evaluates   *)
(* its integrand at the centre of the interval and, when it bisects, at    *)
(* the centres of the halves; depth is how often it bisected.  The status  *)
(* GSL returns is discarded by every caller.  An integrand that fails      *)
(* raises an error which propagates out of the quadrature call.            *)
(***************************************************************************)
MaxDepth == 1

Mid(a, b) == RMul(Half, RAdd(a, b))

RECURSIVE gk_centres(_, _, _)
gk_centres(a, b, depth) ==
  IF depth = 0 THEN <<Mid(a, b)>>
  ELSE <<Mid(a, b)>> \o gk_centres(a, Mid(a, b), depth - 1)
                    \o gk_centres(Mid(a, b), b, depth - 1)

Alloc(fn, w) == [ev |-> "alloc", fn |-> fn, w |-> w]
Free(fn, w)  == [ev |-> "free", fn |-> fn, w |-> w]
Save(fn)     == [ev |-> "save_to_file", fn |-> fn]

Count(lg, kind) == Cardinality({i \in 1..Len(lg) : lg[i].ev = kind})

\* Constant factor for consistent units (a positive constant built from
\* radius_sol, keV2cm, distance_sol and hbar), by a rational stand-in.
factor == <<2, 1>>

(***************************************************************************)
(* calculate_spectral_flux: the volume integrator.  integrals[i] is what   *)
(* the quadrature returns for ergs[i]; failAt is the index of the energy   *)
(* at which the integrand fails (0: none); saveOk is whether save_to_file  *)
(* succeeds.                                                               *)
(***************************************************************************)
RECURSIVE volume_loop(_, _, _, _)
volume_loop(i, ergs, sol, failAt) ==
  IF i > Len(ergs) THEN [log |-> <<>>, thrown |-> FALSE]
  ELSE LET q == [ev |-> "qag", fn |-> "calculate_spectral_flux", erg |-> ergs[i],
                 a |-> sol.r_lo, b |-> sol.r_hi, w |-> "w"]
       IN  IF failAt = i THEN [log |-> <<q>>, thrown |-> TRUE]
           ELSE LET rest == volume_loop(i + 1, ergs, sol, failAt)
                IN  [log |-> <<q>> \o rest.log, thrown |-> rest.thrown]

calculate_spectral_flux(ergs, sol, integrals, failAt, saveas, saveOk) ==
  LET fn   == "calculate_spectral_flux"
      loop == volume_loop(1, ergs, sol, failAt)
      results == [i \in 1..Len(ergs) |-> RMul(factor, integrals[i])]
      freed == <<Alloc(fn, "w")>> \o loop.log \o <<Free(fn, "w")>>
  IN  IF loop.thrown
      THEN [log |-> <<Alloc(fn, "w")>> \o loop.log,
            outcome |-> "IntegrandFailure", result |-> NoValue]
      ELSE IF saveas = ""
      THEN [log |-> freed, outcome |-> "returned", result |-> results]
      ELSE IF saveOk
      THEN [log |-> freed \o <<Save(fn)>>, outcome |-> "returned", result |-> results]
      ELSE [log |-> freed \o <<Save(fn)>>, outcome |-> "IOFailure", result |-> NoValue]

(***************************************************************************)
(* calculate_spectral_flux_solar_disc: the disc integrator.                *)
(***************************************************************************)
\* rad_integrand: stores rad in the shared parameters and runs the inner
\* (line-of-sight) integral with workspace w1.
rad_integrand(rad, p2, sol) ==
  [ev |-> "cquad", fn |-> "rad_integrand", erg |-> p2.erg, rad |-> rad,
   a |-> rad, b |-> RMin(p2.r_max, sol.r_hi), w |-> "w1"]

\* One pass of the energy loop: the outer qag and the inner integrals at the
\* impact parameters it visits; when the integrand fails, it does so in the
\* first inner integral.
disc_energy(p2, sol, r_min, r_max, depth, throws) ==
  LET outer == [ev |-> "qag", fn |-> "calculate_spectral_flux_solar_disc",
                erg |-> p2.erg, a |-> r_min, b |-> r_max, w |-> "w2"]
      nodes == gk_centres(r_min, r_max, depth)
      inner == [k \in 1..Len(nodes) |-> rad_integrand(nodes[k], p2, sol)]
  IN  IF throws THEN <<outer, inner[1]>> ELSE <<outer>> \o inner

RECURSIVE disc_loop(_, _, _, _, _, _, _)
disc_loop(i, ergs, sol, r_min, r_max, depth, failAt) ==
  IF i > Len(ergs) THEN [log |-> <<>>, thrown |-> FALSE]
  ELSE LET p2 == [erg |-> ergs[i], r_max |-> r_max]
       IN  IF failAt = i
           THEN [log |-> disc_energy(p2, sol, r_min, r_max, depth, TRUE),
                 thrown |-> TRUE]
           ELSE LET rest == disc_loop(i + 1, ergs, sol, r_min, r_max, depth, failAt)
                IN  [log |-> disc_energy(p2, sol, r_min, r_max, depth, FALSE)
                               \o rest.log,
                     thrown |-> rest.thrown]

disc_body(ergs, r_max, sol, integrals, depth, failAt, saveas, saveOk) ==
  LET fn    == "calculate_spectral_flux_solar_disc"
      r_min == sol.r_lo
      norm_factor1 == One
      loop  == disc_loop(1, ergs, sol, r_min, r_max, depth, failAt)
      results == [i \in 1..Len(ergs) |->
                    RMul(RMul(factor, norm_factor1), integrals[i])]
      allocs == <<Alloc(fn, "w1"), Alloc(fn, "w2")>>
      freed  == allocs \o loop.log \o <<Free(fn, "w1"), Free(fn, "w2")>>
  IN  IF loop.thrown
      THEN [log |-> allocs \o loop.log,
            outcome |-> "IntegrandFailure", result |-> NoValue]
      ELSE IF saveas = ""
      THEN [log |-> freed, outcome |-> "returned", result |-> results]
      ELSE IF saveOk
      THEN [log |-> freed \o <<Save(fn)>>, outcome |-> "returned", result |-> results]
      ELSE [log |-> freed \o <<Save(fn)>>, outcome |-> "IOFailure", result |-> NoValue]

calculate_spectral_flux_solar_disc_unclamped(ergs, r_max, sol, integrals, depth, failAt, saveas, saveOk) ==
  disc_body(ergs, r_max, sol, integrals, depth, failAt, saveas, saveOk)

calculate_spectral_flux_solar_disc(ergs, r_max, sol, integrals, depth, failAt, saveas, saveOk) ==
  disc_body(ergs, RMin(r_max, sol.r_hi), sol, integrals, depth, failAt, saveas, saveOk)

(***************************************************************************)
(* Windowed-flux integrators.  In integrated_flux_from_file the event      *)
(* "all_peaks" marks the loop that reads the peak list.                    *)
(***************************************************************************)
\* spectral_flux_integrand: one evaluation allocates its own workspace, runs
\* the radial integral and frees the workspace.
spectral_flux_integrand(erg, sol, throws) ==
  LET fn == "spectral_flux_integrand"
      q  == [ev |-> "qag", fn |-> fn, erg |-> erg,
             a |-> sol.r_lo, b |-> sol.r_hi, w |-> "w"]
  IN  IF throws THEN <<Alloc(fn, "w"), q>>
      ELSE <<Alloc(fn, "w"), q, Free(fn, "w")>>

RECURSIVE flux_nodes(_, _, _, _)
flux_nodes(k, nodes, sol, failAt) ==
  IF k > Len(nodes) THEN [log |-> <<>>, thrown |-> FALSE]
  ELSE IF failAt = k
  THEN [log |-> spectral_flux_integrand(nodes[k], sol, TRUE), thrown |-> TRUE]
  ELSE LET rest == flux_nodes(k + 1, nodes, sol, failAt)
       IN  [log |-> spectral_flux_integrand(nodes[k], sol, FALSE) \o rest.log,
            thrown |-> rest.thrown]

\* calculate_flux: result*normfactor with normfactor = 1.0e20, kept as a
\* mantissa and a decimal exponent.
calculate_flux(lowerlimit, upperlimit, sol, integral, depth, failAt) ==
  LET fn   == "calculate_flux"
      q    == [ev |-> "qag", fn |-> fn, a |-> lowerlimit, b |-> upperlimit, w |-> "w"]
      loop == flux_nodes(1, gk_centres(lowerlimit, upperlimit, depth), sol, failAt)
  IN  IF loop.thrown
      THEN [log |-> <<Alloc(fn, "w"), q>> \o loop.log,
            outcome |-> "IntegrandFailure", result |-> NoValue]
      ELSE [log |-> <<Alloc(fn, "w"), q>> \o loop.log \o <<Free(fn, "w")>>,
            outcome |-> "returned",
            result |-> [mantissa |-> integral, exp10 |-> 20]]

\* Peak positions for axion electron interactions, in units of 1e-6 keV (the
\* energies of integrated_flux_from_file are fixed-point integers in this unit).
all_peaks ==
  << 653029,  779074,  920547,  956836, 1020420, 1053430, 1349700, 1408070,
    1469490, 1594870, 1623140, 1650750, 1724610, 1762860, 1860370, 2000070,
    2452810, 2612330, 3126690, 3306160, 3882370, 4081630, 5643940, 5760640,
    6142170, 6198630, 6588740, 6639420, 6664820, 7684410, 7741040, 7767850>>

\* terminate_with_error: reports the message and ends the current operation
\* with the error outcome; control does not return to the caller.
terminate_with_error(kind) == [ev |-> "terminate_with_error", outcome |-> kind]

RECURSIVE peaks_loop_inclusive(_, _, _, _)
peaks_loop_inclusive(k, erg_min, erg_max, relevant_peaks) ==
  IF k > Len(all_peaks) THEN relevant_peaks
  ELSE peaks_loop_inclusive(k + 1, erg_min, erg_max,
                  IF erg_min <= all_peaks[k] /\ all_peaks[k] <= erg_max
                  THEN Append(relevant_peaks, all_peaks[k])
                  ELSE relevant_peaks)

\* The loop over all_peaks: push_back of every peak strictly inside the window.
RECURSIVE peaks_loop(_, _, _, _)
peaks_loop(k, erg_min, erg_max, relevant_peaks) ==
  IF k > Len(all_peaks) THEN relevant_peaks
  ELSE peaks_loop(k + 1, erg_min, erg_max,
                  IF erg_min < all_peaks[k] /\ all_peaks[k] < erg_max
                  THEN Append(relevant_peaks, all_peaks[k])
                  ELSE relevant_peaks)

integrated_flux_body(rangeViolated, erg_min, erg_max, table, includes_electron_interactions, integral, throws) ==
  LET fn   == "integrated_flux_from_file"
      open == <<[ev |-> "OneDInterpolator", fn |-> fn,
                 lower |-> table.lower, upper |-> table.upper]>>
      relevant_peaks == Append(peaks_loop(1, erg_min, erg_max, <<erg_min>>), erg_max)
      q == IF includes_electron_interactions
           THEN <<[ev |-> "all_peaks", fn |-> fn],
                  [ev |-> "qagp", fn |-> fn, pts |-> relevant_peaks, w |-> "w"]>>
           ELSE <<[ev |-> "qag", fn |-> fn, a |-> erg_min, b |-> erg_max, w |-> "w"]>>
  IN  IF rangeViolated
      THEN LET e == terminate_with_error("RangeError")
           IN  [log |-> open \o <<e>>, outcome |-> e.outcome, result |-> NoValue]
      ELSE IF throws
      THEN [log |-> open \o <<Alloc(fn, "w")>> \o q,
            outcome |-> "IntegrandFailure", result |-> NoValue]
      ELSE [log |-> open \o <<Alloc(fn, "w")>> \o q \o <<Free(fn, "w")>>,
            outcome |-> "returned", result |-> integral]

integrated_flux_from_file_loweronly(erg_min, erg_max, table, includes_electron_interactions, integral, throws) ==
  integrated_flux_body(erg_min < table.lower,
                       erg_min, erg_max, table, includes_electron_interactions,
                       integral, throws)

integrated_flux_from_file(erg_min, erg_max, table, includes_electron_interactions, integral, throws) ==
  integrated_flux_body((erg_min < table.lower) \/ (erg_max > table.upper),
                       erg_min, erg_max, table, includes_electron_interactions,
                       integral, throws)

(***************************************************************************)
(* AxionMCGenerator::AxionMCGenerator: the inverse-CDF builder.            *)
(***************************************************************************)
\* int(x): conversion of a double to int truncates towards zero.
int(x) == Sign(x[1]) * (Abs(x[1]) \div x[2])

\* The trapezoid loop, in place on inv_cdf_data_x (1-based: the C++ index i
\* is x[i+1]); returns the array and norm after the loop.
RECURSIVE trapezoid_loop(_, _, _, _)
trapezoid_loop(x, i, norm, omega_delta) ==
  IF i >= Len(x) THEN [x |-> x, norm |-> norm]
  ELSE LET norm2 == RAdd(norm, RMul(RMul(Half, omega_delta),
                                    RAdd(x[i + 1], x[i])))
       IN  trapezoid_loop([x EXCEPT ![i + 1] = norm2], i + 1, norm2, omega_delta)

\* Element accesses of the constructor on its two vectors, each with the
\* C++ index used and the size of the vector at that point.
\* Line 307: inv_cdf_data_erg[i] for 0 <= i < n_omega_vals.
grid_accesses(n) ==
  {[array |-> "inv_cdf_data_erg", i |-> i, size |-> n, line |-> 307] : i \in 0..(n - 1)}

\* Line 317: inv_cdf_data_x[0], whatever the size.
first_entry_access(n) ==
  {[array |-> "inv_cdf_data_x", i |-> 0, size |-> n, line |-> 317]}

\* Lines 318-321 (i and i-1 for 1 <= i < n) and line 325 (0 <= i < n).
table_accesses(n) ==
  {[array |-> "inv_cdf_data_x", i |-> i, size |-> n, line |-> 320] : i \in 1..(n - 1)}
    \cup {[array |-> "inv_cdf_data_x", i |-> i - 1, size |-> n, line |-> 320] : i \in 1..(n - 1)}
    \cup {[array |-> "inv_cdf_data_x", i |-> i, size |-> n, line |-> 321] : i \in 1..(n - 1)}
    \cup {[array |-> "inv_cdf_data_x", i |-> i, size |-> n, line |-> 325] : i \in 0..(n - 1)}

\* The object when the constructor did not complete.
unbuilt(lg, how, acc) ==
  [log |-> lg, outcome |-> how, accesses |-> acc, divisions |-> 0,
   inv_cdf_data_erg |-> <<>>, inv_cdf_data_x |-> <<>>, integrated_norm |-> NoValue,
   flux |-> <<>>, cumulative |-> <<>>, interpolator |-> FALSE]

\* Lines 324-327: integrated_norm = norm, the division of every entry by it
\* and init_inv_cdf_interpolator() on the table as it then stands; divisions
\* counts the divisions by integrated_norm at line 325.
normalise(erg, disc, loop) ==
  [log |-> disc.log \o <<[ev |-> "init_inv_cdf_interpolator"]>>,
   outcome |-> "returned",
   inv_cdf_data_erg |-> erg,
   inv_cdf_data_x |-> [i \in 1..Len(loop.x) |-> RDiv(loop.x[i], loop.norm)],
   integrated_norm |-> loop.norm,
   flux |-> disc.result,
   cumulative |-> loop.x,
   interpolator |-> TRUE,
   accesses |-> grid_accesses(Len(erg)) \cup first_entry_access(Len(erg))
                  \cup table_accesses(Len(erg)),
   divisions |-> Len(loop.x)]

\* Lines 316-322: norm = 0, inv_cdf_data_x[0] = norm and the trapezoid loop.
\* ub is the outcome of the out-of-bounds write inv_cdf_data_x[0] = norm on
\* an empty vector: "crash" or "silent" (the write lands outside the vector).
cumulate(erg, disc, omega_delta, ub) ==
  IF disc.outcome # "returned"
  THEN unbuilt(disc.log, disc.outcome, grid_accesses(Len(erg)))
  ELSE IF Len(erg) = 0 /\ ub = "crash"
  THEN unbuilt(disc.log, "crash", first_entry_access(0))
  ELSE normalise(erg, disc,
                 trapezoid_loop(IF Len(erg) = 0 THEN disc.result
                                ELSE [disc.result EXCEPT ![1] = Zero],
                                1, Zero, omega_delta))

\* Lines 306-314: the energy grid and the spectrum on it.
spectrum(erg, sol, omega_delta, r_max, integrals, depth, failAt, ub) ==
  cumulate(erg,
           calculate_spectral_flux_solar_disc(
              erg, IF RLess(r_max, One) THEN r_max ELSE One,
              sol, integrals, depth, failAt, "", TRUE),
           omega_delta, ub)

n_omega_vals(omega_min, omega_max, omega_delta) ==
  int(RDiv(RSub(omega_max, omega_min), omega_delta))

\* A negative n_omega_vals converts to a size beyond max_size(): the vector
\* constructor throws std::length_error.
AxionMCGenerator(sol, omega_min, omega_max, omega_delta, r_max, integrals, depth, failAt, ub) ==
  IF n_omega_vals(omega_min, omega_max, omega_delta) < 0
  THEN unbuilt(<<>>, "length_error", {})
  ELSE spectrum([i \in 1..n_omega_vals(omega_min, omega_max, omega_delta) |->
                   RAdd(omega_min, RMul(<<i - 1, 1>>, omega_delta))],
                sol, omega_delta, r_max, integrals, depth, failAt, ub)

(***************************************************************************)
(* The state machine: the library is driven by calls with inputs drawn     *)
(* from small sets.                                                        *)
(***************************************************************************)
MaxLeaked == 1
MaxErgs == 2
MaxGrid == 3
MaxRate == 2

Rates == {<<k, 1>> : k \in 0..MaxRate}
Radii == {<<1, 2>>, One, <<3, 2>>}
Energies == {Zero, One, <<2, 1>>}

\* Energy lists of a spectrum: strictly increasing.
ErgLists ==
  {e \in UNION {[1..n -> Energies] : n \in 0..MaxErgs} :
      \A i \in 1..(Len(e) - 1) : RLess(e[i], e[i + 1])}

\* What the quadrature returns for each energy of a list of n.
Integrals(n) == {[i \in 1..n |-> v] : v \in {Zero, One}}

SaveModes == {<<"", TRUE>>, <<"flux.dat", TRUE>>, <<"flux.dat", FALSE>>}

\* Window bounds of integrated_flux_from_file, in units of 1e-6 keV.
WindowErgs == {0, 500000, 653029, 700000, 920547, 1000000, 7767850, 9000000}
Tables == {[lower |-> 0, upper |-> 10000000], [lower |-> 500000, upper |-> 7767850]}

\* (rad, rho) with rho^2 - rad^2 the square of a rational.
LineOfSight == {<<Zero, <<1, 2>>>>, <<<<3, 5>>, One>>, <<<<4, 5>>, One>>,
                <<<<1, 2>>, <<1, 2>>>>}

OmegaMins == {Zero, One}
OmegaMaxs == {Zero, One, <<2, 1>>}
OmegaDeltas == {<<1, 2>>, <<2, 3>>, One}

Heap(lg) == allocated + Count(lg, "alloc") - Count(lg, "free")

NoGenerator ==
  /\ inv_cdf_data_erg = <<>>
  /\ inv_cdf_data_x = <<>>
  /\ integrated_norm = NoValue

Init ==
  /\ s \in [r_lo : {<<1, 10>>}, r_hi : {<<4, 5>>, One}, opcode : opacitycode]
  /\ call = [op |-> "none"]
  /\ outcome = "none"
  /\ result = NoValue
  /\ log = <<>>
  /\ allocated = 0
  /\ NoGenerator

\* Calls are synchronous and single-threaded: a call starts when the caller
\* holds no pending result.
Idle == call.op = "none"

Pure == UNCHANGED <<s, allocated, inv_cdf_data_erg, inv_cdf_data_x, integrated_norm>>

Eval_integrand_Primakoff ==
  /\ Idle
  /\ \E r \in Radii, erg \in Energies, g \in Rates :
    /\ call' = [op |-> "integrand_Primakoff", r |-> r, erg |-> erg,
                acc |-> [Gamma_P_Primakoff |-> g]]
    /\ result' = integrand_Primakoff(r, erg, call'.acc)
    /\ outcome' = "returned"
    /\ log' = <<>>
    /\ Pure

Eval_integrand_weightedCompton ==
  /\ Idle
  /\ \E r \in Radii, erg \in Energies, g \in Rates, T \in {One, <<2, 1>>} :
    /\ call' = [op |-> "integrand_weightedCompton", r |-> r, erg |-> erg,
                acc |-> [Gamma_P_Compton |-> g, temperature_in_keV |-> T]]
    /\ result' = integrand_weightedCompton(r, erg, call'.acc)
    /\ outcome' = "returned"
    /\ log' = <<>>
    /\ Pure

Eval_integrand_opacity ==
  /\ Idle
  /\ \E r \in {<<1, 2>>, One}, erg \in {One, <<2, 1>>},
     el \in [1..num_op_elements -> {Zero, One}], g \in Rates :
    /\ call' = [op |-> "integrand_opacity", r |-> r, erg |-> erg,
                acc |-> [Gamma_P_opacity_element |-> el, Gamma_P_opacity |-> g]]
    /\ result' = integrand_opacity(r, erg, s.opcode, call'.acc)
    /\ outcome' = "returned"
    /\ log' = <<>>
    /\ Pure

Eval_rho_integrand ==
  /\ Idle
  /\ \E los \in LineOfSight, erg \in Energies, g \in Rates :
    /\ call' = [op |-> "rho_integrand", rho |-> los[2], erg |-> erg,
                rad |-> los[1], process |-> g]
    /\ result' = [ret |-> rho_integrand(los[2], erg, los[1], g)]
    /\ outcome' = "returned"
    /\ log' = <<>>
    /\ Pure

Finish(r) ==
  /\ log' = r.log
  /\ outcome' = r.outcome
  /\ result' = r.result
  /\ allocated' = Heap(r.log)
  /\ UNCHANGED <<s, inv_cdf_data_erg, inv_cdf_data_x, integrated_norm>>

Call_calculate_spectral_flux ==
  /\ Idle
  /\ allocated < MaxLeaked
  /\ \E ergs \in ErgLists, save \in SaveModes :
       \E integrals \in Integrals(Len(ergs)), failAt \in 0..Len(ergs) :
         /\ call' = [op |-> "calculate_spectral_flux", ergs |-> ergs,
                     saveas |-> save[1]]
         /\ Finish(calculate_spectral_flux(ergs, s, integrals, failAt,
                                           save[1], save[2]))

Call_calculate_spectral_flux_solar_disc ==
  /\ Idle
  /\ allocated < MaxLeaked
  /\ \E ergs \in ErgLists, save \in SaveModes, r_max \in Radii, depth \in 0..MaxDepth :
       \E integrals \in Integrals(Len(ergs)), failAt \in 0..Len(ergs) :
         /\ call' = [op |-> "calculate_spectral_flux_solar_disc", ergs |-> ergs,
                     r_max |-> r_max, saveas |-> save[1]]
         /\ Finish(calculate_spectral_flux_solar_disc(ergs, r_max, s, integrals,
                                                      depth, failAt, save[1], save[2]))

Call_calculate_flux ==
  /\ Idle
  /\ allocated < MaxLeaked
  /\ \E lowerlimit \in Energies, upperlimit \in Energies, depth \in 0..MaxDepth,
        integral \in {Zero, One} :
       \E failAt \in 0..Len(gk_centres(lowerlimit, upperlimit, depth)) :
         /\ call' = [op |-> "calculate_flux", lowerlimit |-> lowerlimit,
                     upperlimit |-> upperlimit]
         /\ Finish(calculate_flux(lowerlimit, upperlimit, s, integral, depth, failAt))

Call_integrated_flux_from_file ==
  /\ Idle
  /\ allocated < MaxLeaked
  /\ \E erg_min \in WindowErgs, erg_max \in WindowErgs, table \in Tables,
        flag \in BOOLEAN, throws \in BOOLEAN :
       /\ call' = [op |-> "integrated_flux_from_file", erg_min |-> erg_min,
                   erg_max |-> erg_max, table |-> table,
                   includes_electron_interactions |-> flag]
       /\ Finish(integrated_flux_from_file(erg_min, erg_max, table, flag, One, throws))

FinishGenerator(g) ==
  /\ log' = g.log
  /\ outcome' = g.outcome
  /\ result' = [flux |-> g.flux, cumulative |-> g.cumulative,
                interpolator |-> g.interpolator,
                accesses |-> g.accesses, divisions |-> g.divisions]
  /\ allocated' = Heap(g.log)
  /\ inv_cdf_data_erg' = g.inv_cdf_data_erg
  /\ inv_cdf_data_x' = g.inv_cdf_data_x
  /\ integrated_norm' = g.integrated_norm
  /\ UNCHANGED s

\* The grid is capped at MaxGrid points; a negative count has no grid.
GridSize(n) == IF n < 0 THEN 0 ELSE n

Construct_AxionMCGenerator ==
  /\ Idle
  /\ allocated < MaxLeaked
  /\ \E omega_min \in OmegaMins, omega_max \in OmegaMaxs, omega_delta \in OmegaDeltas,
        r_max \in {<<1, 2>>, <<3, 2>>}, ub \in {"crash", "silent"} :
       /\ n_omega_vals(omega_min, omega_max, omega_delta) <= MaxGrid
       /\ \E integrals \in [1..GridSize(n_omega_vals(omega_min, omega_max, omega_delta))
                              -> Rates],
             failAt \in 0..1 :
            /\ failAt <= GridSize(n_omega_vals(omega_min, omega_max, omega_delta))
            /\ call' = [op |-> "AxionMCGenerator", omega_min |-> omega_min,
                        omega_max |-> omega_max, omega_delta |-> omega_delta,
                        r_max |-> r_max]
            /\ FinishGenerator(AxionMCGenerator(s, omega_min, omega_max, omega_delta,
                                                r_max, integrals, 0, failAt, ub))

\* The caller drops the result of the finished call (and the generator it
\* built, if any); workspaces that were not freed stay allocated.
Discard ==
  /\ ~Idle
  /\ call' = [op |-> "none"]
  /\ outcome' = "none"
  /\ result' = NoValue
  /\ log' = <<>>
  /\ inv_cdf_data_erg' = <<>>
  /\ inv_cdf_data_x' = <<>>
  /\ integrated_norm' = NoValue
  /\ UNCHANGED <<s, allocated>>

Next ==
  \/ Eval_integrand_Primakoff
  \/ Eval_integrand_weightedCompton
  \/ Eval_integrand_opacity
  \/ Eval_rho_integrand
  \/ Call_calculate_spectral_flux
  \/ Call_calculate_spectral_flux_solar_disc
  \/ Call_calculate_flux
  \/ Call_integrated_flux_from_file
  \/ Construct_AxionMCGenerator
  \/ Discard

Spec == Init /\ [][Next]_vars

(***************************************************************************)
(* Properties.                                                             *)
(***************************************************************************)
Events(kinds) == {i \in 1..Len(log) : log[i].ev \in kinds}

FromFile == call.op = "integrated_flux_from_file"

OutsideTable ==
  call.erg_min < call.table.lower \/ call.erg_max > call.table.upper

\* C1: integrated_flux_from_file ends in RangeError whenever erg_min is below
\* the table's lower bound or erg_max above its upper bound, before any
\* workspace is allocated or quadrature started and without a result; with
\* the window inside the table no RangeError is raised.
C1_RangeErrorOutsideTable ==
  FromFile =>
    /\ OutsideTable =>
         /\ outcome = "RangeError"
         /\ result = NoValue
         /\ Events({"alloc", "qag", "qagp", "cquad"}) = {}
    /\ ~OutsideTable => outcome # "RangeError"

C1_Witness ==
  /\ FromFile
  /\ call.erg_min >= call.table.lower
  /\ call.erg_max > call.table.upper
  /\ outcome = "RangeError"

PeaksInside == {all_peaks[k] : k \in {j \in 1..Len(all_peaks) :
                   call.erg_min < all_peaks[j] /\ all_peaks[j] < call.erg_max}}

\* C5: with includes_electron_interactions set, the breakpoints given to the
\* quadrature are erg_min, then exactly the peaks strictly inside the window
\* in ascending order, then erg_max; with the flag clear there is a single
\* integration over [erg_min, erg_max] and the peak list is not read.
C5_BreakpointsAreInteriorPeaks ==
  (FromFile /\ outcome # "RangeError") =>
    IF call.includes_electron_interactions
    THEN /\ Events({"qag"}) = {}
         /\ Cardinality(Events({"qagp"})) = 1
         /\ \A i \in Events({"qagp"}) :
              LET pts == log[i].pts
              IN  /\ Len(pts) = Cardinality(PeaksInside) + 2
                  /\ pts[1] = call.erg_min
                  /\ pts[Len(pts)] = call.erg_max
                  /\ {pts[j] : j \in 2..(Len(pts) - 1)} = PeaksInside
                  /\ \A j \in 2..(Len(pts) - 2) : pts[j] < pts[j + 1]
    ELSE /\ Events({"qagp", "all_peaks"}) = {}
         /\ Cardinality(Events({"qag"})) = 1
         /\ \A i \in Events({"qag"}) :
              log[i].a = call.erg_min /\ log[i].b = call.erg_max

C5_Witness ==
  /\ FromFile
  /\ outcome = "returned"
  /\ call.includes_electron_interactions
  /\ call.erg_min = 653029
  /\ call.erg_max = 1000000
  /\ \E i \in Events({"qagp"}) : Len(log[i].pts) = 5

\* The r_max handed to the disc integrator by the call at hand.
RequestedRMax ==
  IF call.op = "AxionMCGenerator"
  THEN (IF RLess(call.r_max, One) THEN call.r_max ELSE One)
  ELSE call.r_max

ClampedRMax ==
  IF RLess(s.r_hi, RequestedRMax) THEN s.r_hi ELSE RequestedRMax

\* C6: in every disc integration, also the one made by the AxionMCGenerator
\* constructor, the upper limit of the outer integral and of every inner
\* integral is min(requested r_max, r_hi).
C6_UpperLimitsClamped ==
  call.op \in {"calculate_spectral_flux_solar_disc", "AxionMCGenerator"} =>
    \A i \in Events({"qag", "cquad"}) : log[i].b = ClampedRMax

C6_Witness ==
  /\ call.op = "calculate_spectral_flux_solar_disc"
  /\ outcome = "returned"
  /\ RLess(s.r_hi, call.r_max)
  /\ Events({"qag"}) # {}
  /\ Cardinality(Events({"cquad"})) >= 3

\* The claimed weight 0.5 * (erg/pi)^2.
ClaimedEnergyWeight(erg) == RMul(Half, RMul(RDiv(erg, pi), RDiv(erg, pi)))

\* C7: for rho > rad, rho_integrand equals
\* (rho / sqrt(rho^2 - rad^2)) * (0.5 * (erg/pi)^2) * process(erg, rho).
C7_RhoIntegrandWeight ==
  (call.op = "rho_integrand" /\ RLess(call.rad, call.rho)) =>
    result.ret =
      RMul(RMul(RDiv(call.rho,
                     RSqrt(RSub(RMul(call.rho, call.rho), RMul(call.rad, call.rad)))),
                ClaimedEnergyWeight(call.erg)),
           call.process)

Integrators ==
  {"calculate_spectral_flux", "calculate_spectral_flux_solar_disc",
   "calculate_flux", "integrated_flux_from_file"}

\* C8: when a call of an integrator has exited, by return or by failure,
\* every workspace it allocated has been released, and none stays allocated.
C8_WorkspacesReleased ==
  call.op \in Integrators =>
    /\ \A i \in Events({"alloc"}) :
         Cardinality({j \in Events({"alloc"}) : log[j].fn = log[i].fn /\ log[j].w = log[i].w})
           = Cardinality({j \in Events({"free"}) : log[j].fn = log[i].fn /\ log[j].w = log[i].w})
    /\ allocated = 0

RECURSIVE MetalSum(_, _)
MetalSum(el, k) ==
  IF k < 3 THEN Zero ELSE RAdd(MetalSum(el, k - 1), el[k])

OpacityWeight ==
  RMul(Half, RMul(RDiv(RMul(call.r, call.erg), pi), RDiv(RMul(call.r, call.erg), pi)))

\* C9: integrand_opacity is, for tag OP, 0.5*(r*erg/pi)^2 times the sum of
\* the per-element rates over all tabulated elements but the first two, and
\* for OPAS, LEDCOP and ATOMIC 0.5*(r*erg/pi)^2 times the aggregate rate;
\* for every tag exactly one of the two branches determines the result.
C9_OpacityDispatch ==
  call.op = "integrand_opacity" =>
    /\ Cardinality(result.branches) = 1
    /\ s.opcode = "OP" =>
         /\ result.branches = {"elements"}
         /\ result.ret = RMul(OpacityWeight,
                              MetalSum(call.acc.Gamma_P_opacity_element, num_op_elements))
    /\ s.opcode \in {"OPAS", "LEDCOP", "ATOMIC"} =>
         /\ result.branches = {"aggregate"}
         /\ result.ret = RMul(OpacityWeight, call.acc.Gamma_P_opacity)

C9_Witness ==
  /\ call.op = "integrand_opacity"
  /\ s.opcode = "OP"
  /\ call.acc.Gamma_P_opacity_element[1] = One
  /\ call.acc.Gamma_P_opacity_element[3] = One
  /\ call.acc.Gamma_P_opacity = <<2, 1>>
  /\ result.ret # Zero

\* C10: integrand_weightedCompton at erg = 0 returns exactly 0 for every r,
\* without evaluating the temperature or the Compton rate.
C10_WeightedComptonZeroEnergy ==
  (call.op = "integrand_weightedCompton" /\ call.erg = Zero) =>
    /\ result.exact
    /\ result.ret = Zero
    /\ result.evaluated = {}

C10_Witness ==
  /\ call.op = "integrand_weightedCompton"
  /\ call.erg = Zero
  /\ call.r = One
  /\ call.acc.Gamma_P_Compton = One
  /\ result.ret = Zero

Built == call.op = "AxionMCGenerator" /\ outcome = "returned"

SomeFluxPositive == \E i \in 1..Len(result.flux) : RLess(Zero, result.flux[i])

\* C2: for a valid spectrum (flux >= 0) the stored cumulative-probability
\* sequence inv_cdf_data_x is non-decreasing, starts at 0 and ends at 1.
\* Stated for grids of at least two points whose spectrum is not identically
\* zero.
C2_CumulativeProbabilityTable ==
  (Built /\ Len(inv_cdf_data_x) >= 2 /\ SomeFluxPositive) =>
    /\ inv_cdf_data_x[1] = Zero
    /\ inv_cdf_data_x[Len(inv_cdf_data_x)] = One
    /\ \A i \in 1..(Len(inv_cdf_data_x) - 1) :
         RLeq(inv_cdf_data_x[i], inv_cdf_data_x[i + 1])

\* C3: the un-normalised cumulative sequence C is the trapezoidal rule on the
\* flux samples F of the disc integrator: C[0] = 0 and
\* C[i] = C[i-1] + 0.5 * omega_delta * (F[i] + F[i-1]); integrated_norm is
\* the last C.
C3_TrapezoidalRule ==
  (Built /\ Len(result.cumulative) >= 1) =>
    /\ result.cumulative[1] = Zero
    /\ \A i \in 2..Len(result.cumulative) :
         result.cumulative[i] =
           RAdd(result.cumulative[i - 1],
                RMul(RMul(Half, call.omega_delta),
                     RAdd(result.flux[i], result.flux[i - 1])))
    /\ integrated_norm = result.cumulative[Len(result.cumulative)]

\* C4: the probability column of the table handed to
\* init_inv_cdf_interpolator is strictly increasing, also for spectra with
\* zero-flux samples.  Stated for tables with a non-zero integrated_norm.
C4_StrictlyMonotonicTable ==
  (Built /\ Events({"init_inv_cdf_interpolator"}) # {}
         /\ integrated_norm # Zero) =>
    \A i \in 1..(Len(inv_cdf_data_x) - 1) :
      RLess(inv_cdf_data_x[i], inv_cdf_data_x[i + 1])

\* C11: in the AxionMCGenerator constructor every read and write of the
\* energy grid and of the cumulative table uses an index in [0, n), n being
\* the number of grid points, and the normalisation never divides by a zero
\* integrated_norm; also for n = 0, n = 1 and an all-zero spectrum.
C11_IndicesInRangeAndNormNonZero ==
  call.op = "AxionMCGenerator" =>
    /\ \A a \in result.accesses : 0 <= a.i /\ a.i < a.size
    /\ result.divisions > 0 => integrated_norm # Zero

====
